---- MODULE Spec2Model ----
(***************************************************************************)
(* Firecash backend: the group role store (routes/account_groups.rs), the  *)
(* recurring-transaction handlers (routes/recurring_transactions.rs) and   *)
(* the worker's tick (bin/worker.rs), over one shared PostgreSQL store.    *)
(*                                                                         *)
(* Every SQL statement issued on the pool is one atomic step (autocommit). *)
(* A handler that issues several statements is a process whose program     *)
(* counter sits between them; pure code between two awaits belongs to the  *)
(* step of the statement before it.  The recurring-transaction handlers    *)
(* end in a single writing statement and are one step each; the store's    *)
(* users, accounts and roles do not change while they run.                 *)
(***************************************************************************)
EXTENDS Integers, Sequences, FiniteSets, Bags, TLC

(***************************************************************************)
(* Identities.  users and accounts are maintained outside the modelled     *)
(* handlers; they are fixed tables here.                                   *)
(***************************************************************************)
Users == {"u1", "u2", "u3"}
NoUser == "nobody"
Accounts == {"a1", "a2"}
Groups == {"g1", "g2"}
Reqs == {"p1", "p2"}

\* accounts.user_id
AccountOwner(a) == IF a = "a1" THEN "u1" ELSE "u2"

NoRole == "none"
Roles == {"view", "edit", "admin"}

\* Role strings a client may send.
RoleInputs == {"view", "edit", " Admin", "owner"}

\* The handlers' results: (StatusCode, body).
Status(code, msg) == [code |-> code, msg |-> msg]
OK == Status(200, "")
NO_CONTENT == Status(204, "")
INVALID_ROLE == Status(400, "Invalid role")
AT_LEAST_ONE_ADMIN == Status(400, "At least one admin required")
FORBIDDEN == Status(403, "Forbidden")
GROUP_NOT_FOUND == Status(404, "Account group not found")
USER_NOT_FOUND == Status(404, "User not found")
ACCOUNT_NOT_FOUND == Status(404, "Account not found")
RECURRING_NOT_FOUND == Status(404, "Recurring transaction not found")
\* crate::auth::internal_error
INTERNAL_SERVER_ERROR == Status(500, "error")
NoResp == Status(0, "")

\* The name column of account_groups: no row, the name given at creation, the
\* name of a later update.
NoName == ""
NewName == "n0"
OtherName == "n1"

VARIABLES
    groups,     \* account_groups: group id -> owner (user_id), NoUser when no row
    names,      \* account_groups: group id -> name, NoName when no row
    agu,        \* account_group_users: <<group, user>> -> role, NoRole when no row
    agm,        \* account_group_members: set of <<group, account>>
    req,        \* the handler each request slot is running, and where it stands
    resp,       \* the result of the request that ended last
    rt,         \* recurring_transactions: id -> row, over the ids that have a row
    txns,       \* transactions: the bag of ledger rows the worker has inserted
    now,        \* the store's clock NOW(), in days
    tick,       \* each worker's tick statement: where it stands, what it holds
    nticks,     \* tick statements started so far
    advances    \* per obligation, the worker's UPDATEs of next_occurs_at so far

gvars == <<groups, names, agu, agm, req, resp>>
svars == <<rt, txns, now, tick, nticks, advances>>
vars == <<groups, names, agu, agm, req, resp, rt, txns, now, tick, nticks, advances>>

Idle == [op |-> "idle", pc |-> "idle", actor |-> NoUser, g |-> "g1",
         target |-> NoUser, role |-> NoRole, accts |-> {}]

\* str::trim followed by str::to_lowercase, on the modelled inputs.
TrimLower(s) ==
    CASE s = " Admin" -> "admin"
      [] OTHER -> s

\* The validation that hands on the string as it was sent.
normalize_role_raw(s) ==
    IF TrimLower(s) \in {"view", "edit", "admin"}
    THEN [ok |-> TRUE, role |-> s]
    ELSE [ok |-> FALSE, role |-> NoRole]

\* normalize_role: Ok(normalized) or Err(BAD_REQUEST, "Invalid role").
normalize_role(s) ==
    IF TrimLower(s) \in {"view", "edit", "admin"}
    THEN [ok |-> TRUE, role |-> TrimLower(s)]
    ELSE [ok |-> FALSE, role |-> NoRole]

\* The check that lets every member of the group pass.
ensure_group_admin_any_role(g, u) ==
    IF groups[g] = NoUser THEN GROUP_NOT_FOUND
    ELSE IF agu[<<g, u>>] = NoRole THEN FORBIDDEN
    ELSE OK

\* ensure_group_admin: the LEFT JOIN of account_groups with the caller's
\* account_group_users row.
ensure_group_admin(g, u) ==
    IF groups[g] = NoUser THEN GROUP_NOT_FOUND
    ELSE IF agu[<<g, u>>] # "admin" THEN FORBIDDEN
    ELSE OK

\* SELECT COUNT(*) FROM account_group_users WHERE group_id = g AND role = 'admin'
admin_count(g) == Cardinality({u \in Users : agu[<<g, u>>] = "admin"})

Members(g) == {u \in Users : agu[<<g, u>>] # NoRole}

Respond(p, status) ==
    /\ req' = [req EXCEPT ![p] = Idle]
    /\ resp' = status

Goto(p, r) ==
    /\ req' = [req EXCEPT ![p] = r]
    /\ UNCHANGED resp

(***************************************************************************)
(* create_account_group: four kinds of statement on the pool, no           *)
(* transaction around them.                                                *)
(***************************************************************************)
\* SELECT COUNT(*) FROM accounts WHERE user_id = u AND id = ANY(ids)
owned_count(u, ids) == Cardinality({a \in ids : AccountOwner(a) = u})

\* The ids Uuid::new_v4() yields to create_account_group in the runs explored.
NewGroupIds == {"g1"}

\* Uuid::new_v4(): an id no row uses.
FreshGroup(g) == g \in NewGroupIds /\ groups[g] = NoUser

CgInsertGroupStmt(p, u, ids) ==
    \E g \in Groups :
        /\ FreshGroup(g)
        /\ groups' = [groups EXCEPT ![g] = u]
        /\ names' = [names EXCEPT ![g] = NewName]
        /\ Goto(p, [Idle EXCEPT !.op = "create_group", !.pc = "insert_admin",
                                !.actor = u, !.g = g, !.accts = ids])
        /\ UNCHANGED <<agu, agm>>

CgStart(p, u, ids) ==
    /\ req[p] = Idle
    /\ IF ids # {} /\ owned_count(u, ids) # Cardinality(ids)
       THEN Respond(p, FORBIDDEN) /\ UNCHANGED <<groups, names, agu, agm>>
       ELSE IF ids # {}
       THEN /\ Goto(p, [Idle EXCEPT !.op = "create_group", !.pc = "insert_group",
                                    !.actor = u, !.accts = ids])
            /\ UNCHANGED <<groups, names, agu, agm>>
       ELSE CgInsertGroupStmt(p, u, ids)
    /\ UNCHANGED svars

CgInsertGroup(p) ==
    /\ req[p].op = "create_group" /\ req[p].pc = "insert_group"
    /\ CgInsertGroupStmt(p, req[p].actor, req[p].accts)
    /\ UNCHANGED svars

\* INSERT INTO account_group_users ... 'admin' ON CONFLICT DO NOTHING
CgInsertAdmin(p) ==
    /\ req[p].op = "create_group" /\ req[p].pc = "insert_admin"
    /\ LET k == <<req[p].g, req[p].actor>> IN
       agu' = IF agu[k] = NoRole THEN [agu EXCEPT ![k] = "admin"] ELSE agu
    /\ IF req[p].accts = {}
       THEN Respond(p, OK)
       ELSE Goto(p, [req[p] EXCEPT !.pc = "insert_members"])
    /\ UNCHANGED <<groups, names, agm>>
    /\ UNCHANGED svars

\* for account_id in payload.account_ids: INSERT ... ON CONFLICT DO NOTHING
CgInsertMember(p) ==
    /\ req[p].op = "create_group" /\ req[p].pc = "insert_members"
    /\ \E a \in req[p].accts :
        /\ agm' = agm \cup {<<req[p].g, a>>}
        /\ IF req[p].accts = {a}
           THEN Respond(p, OK)
           ELSE Goto(p, [req[p] EXCEPT !.accts = @ \ {a}])
    /\ UNCHANGED <<groups, names, agu>>
    /\ UNCHANGED svars

\* A statement of create_account_group fails, or the request is dropped at an
\* await: `?` returns the error, and what the earlier statements wrote on the
\* pool stays written.
CgAbort(p) ==
    /\ req[p].op = "create_group"
    /\ Respond(p, INTERNAL_SERVER_ERROR)
    /\ UNCHANGED <<groups, names, agu, agm>>
    /\ UNCHANGED svars

(***************************************************************************)
(* create_account_group_user: ensure_group_admin, normalize_role and the   *)
(* lookup of the e-mail in the (fixed) users table, then the upsert.       *)
(***************************************************************************)
CguStart(p, u, g, t, r) ==
    /\ req[p] = Idle
    /\ IF ensure_group_admin(g, u) # OK THEN Respond(p, ensure_group_admin(g, u))
       ELSE IF ~normalize_role(r).ok THEN Respond(p, INVALID_ROLE)
       ELSE IF t = NoUser THEN Respond(p, USER_NOT_FOUND)
       ELSE Goto(p, [Idle EXCEPT !.op = "add_member", !.pc = "upsert", !.g = g,
                                 !.target = t, !.role = normalize_role(r).role])
    /\ UNCHANGED <<groups, names, agu, agm>>
    /\ UNCHANGED svars

\* INSERT ... ON CONFLICT (group_id, user_id) DO UPDATE SET role = EXCLUDED.role
CguUpsert(p) ==
    /\ req[p].op = "add_member" /\ req[p].pc = "upsert"
    /\ agu' = [agu EXCEPT ![<<req[p].g, req[p].target>>] = req[p].role]
    /\ Respond(p, NO_CONTENT)
    /\ UNCHANGED <<groups, names, agm>>
    /\ UNCHANGED svars

(***************************************************************************)
(* update_account_group_user                                               *)
(***************************************************************************)
UguStart(p, u, g, t, r) ==
    /\ req[p] = Idle
    /\ IF ensure_group_admin(g, u) # OK THEN Respond(p, ensure_group_admin(g, u))
       ELSE IF ~normalize_role(r).ok THEN Respond(p, INVALID_ROLE)
       ELSE Goto(p, [Idle EXCEPT !.op = "update_member", !.pc = "update", !.g = g,
                                 !.target = t, !.role = normalize_role(r).role])
    /\ UNCHANGED <<groups, names, agu, agm>>
    /\ UNCHANGED svars

\* UPDATE account_group_users SET role = $1 WHERE group_id = $2 AND user_id = $3
UguUpdate(p) ==
    /\ req[p].op = "update_member" /\ req[p].pc = "update"
    /\ LET k == <<req[p].g, req[p].target>> IN
       agu' = IF agu[k] # NoRole THEN [agu EXCEPT ![k] = req[p].role] ELSE agu
    /\ Respond(p, NO_CONTENT)
    /\ UNCHANGED <<groups, names, agm>>
    /\ UNCHANGED svars

(***************************************************************************)
(* delete_account_group_user                                               *)
(***************************************************************************)
DguStart(p, u, g, t) ==
    /\ req[p] = Idle
    /\ IF ensure_group_admin(g, u) # OK THEN Respond(p, ensure_group_admin(g, u))
       ELSE Goto(p, [Idle EXCEPT !.op = "remove_member", !.pc = "count", !.g = g,
                                 !.target = t])
    /\ UNCHANGED <<groups, names, agu, agm>>
    /\ UNCHANGED svars

\* The guard written as "no admin at all".
last_admin_branch_strict(c) == c < 1

\* if admin_count <= 1
last_admin_branch(c) == c <= 1

DguCount(p) ==
    /\ req[p].op = "remove_member" /\ req[p].pc = "count"
    /\ IF last_admin_branch(admin_count(req[p].g))
       THEN Goto(p, [req[p] EXCEPT !.pc = "target_role"])
       ELSE Goto(p, [req[p] EXCEPT !.pc = "delete"])
    /\ UNCHANGED <<groups, names, agu, agm>>
    /\ UNCHANGED svars

\* SELECT role ... ; matches!(target_role.as_deref(), Some("admin"))
DguTargetRole(p) ==
    /\ req[p].op = "remove_member" /\ req[p].pc = "target_role"
    /\ IF agu[<<req[p].g, req[p].target>>] = "admin"
       THEN Respond(p, AT_LEAST_ONE_ADMIN)
       ELSE Goto(p, [req[p] EXCEPT !.pc = "delete"])
    /\ UNCHANGED <<groups, names, agu, agm>>
    /\ UNCHANGED svars

\* DELETE FROM account_group_users WHERE group_id = $1 AND user_id = $2
DguDelete(p) ==
    /\ req[p].op = "remove_member" /\ req[p].pc = "delete"
    /\ agu' = [agu EXCEPT ![<<req[p].g, req[p].target>>] = NoRole]
    /\ Respond(p, NO_CONTENT)
    /\ UNCHANGED <<groups, names, agm>>
    /\ UNCHANGED svars

(***************************************************************************)
(* update_account_group: ensure_group_admin on the pool, then one          *)
(* transaction with the rename, the ownership test and the replacement of  *)
(* the memberships; a return before tx.commit() drops tx and rolls back.   *)
(***************************************************************************)
\* nm: Option<String>, ids: Option<Vec<Uuid>> as the set of its elements.
update_account_group(p, u, g, nm, ids) ==
    /\ req[p] = Idle
    /\ UNCHANGED <<groups, agu>>
    /\ UNCHANGED svars
    /\ IF ensure_group_admin(g, u) # OK
       THEN Respond(p, ensure_group_admin(g, u)) /\ UNCHANGED <<names, agm>>
       ELSE IF groups[g] # u
       THEN Respond(p, GROUP_NOT_FOUND) /\ UNCHANGED <<names, agm>>
       ELSE IF /\ ids # {}
               /\ \E S \in ids : S # {} /\ owned_count(u, S) # Cardinality(S)
       THEN Respond(p, FORBIDDEN) /\ UNCHANGED <<names, agm>>
       ELSE /\ names' = [names EXCEPT ![g] = IF nm = {} THEN @
                                             ELSE CHOOSE n \in nm : TRUE]
            /\ agm' = IF ids = {} THEN agm
                      ELSE {m \in agm : m[1] # g}
                           \cup {<<g, a>> : a \in CHOOSE S \in ids : TRUE}
            /\ Respond(p, OK)

(***************************************************************************)
(* Recurring transactions.  Time is counted in whole days.                 *)
(***************************************************************************)
MaxNow == 2             \* the clock runs from 0 to MaxNow
MaxTicks == 3           \* tick statements the workers start

Workers == {"w1", "w2"}
\* Uuid::new_v4() of create_recurring_transaction, in order of creation.
RIdSeq == <<"r1", "r2">>
RIds == {RIdSeq[i] : i \in 1..Len(RIdSeq)}
\* interval_days: i32, stored as sent.
Intervals == {0, 1, 2}
Times == 0..MaxNow

\* Option<T>: {} is None, {v} is Some(v).
None == {}
Some(v) == {v}
\* COALESCE($n, column)
Coalesce(opt, old) == IF opt = None THEN old ELSE CHOOSE v \in opt : TRUE

\* The CASE written as role = 'edit'.
can_edit_exact(u, a) ==
    IF \E g \in Groups : <<g, a>> \in agm /\ agu[<<g, u>>] = "edit"
    THEN 1 ELSE 0

\* MIN in the place of MAX: every group that exposes the account must give
\* edit or admin.
can_edit_min(u, a) ==
    IF /\ \E g \in Groups : <<g, a>> \in agm
       /\ \A g \in Groups : <<g, a>> \in agm => agu[<<g, u>>] \in {"edit", "admin"}
    THEN 1 ELSE 0

\* ensure_account_edit_access: MAX(CASE WHEN agu.role IN ('edit','admin') ...)
\* over the LEFT JOINs of the account with its groups and the caller's roles.
can_edit(u, a) ==
    IF \E g \in Groups : <<g, a>> \in agm /\ agu[<<g, u>>] \in {"edit", "admin"}
    THEN 1 ELSE 0

\* The check that answers a missing accounts row like a refused one.
ensure_account_edit_access_one_error(u, a) ==
    IF a \notin Accounts \/ (AccountOwner(a) # u /\ can_edit(u, a) = 0)
    THEN FORBIDDEN
    ELSE OK

\* The check without the comparison of the owner.
ensure_account_edit_access_by_role(u, a) ==
    IF a \notin Accounts THEN ACCOUNT_NOT_FOUND
    ELSE IF can_edit(u, a) = 0 THEN FORBIDDEN
    ELSE OK

ensure_account_edit_access(u, a) ==
    IF a \notin Accounts THEN ACCOUNT_NOT_FOUND
    ELSE IF AccountOwner(a) # u /\ can_edit(u, a) = 0 THEN FORBIDDEN
    ELSE OK

\* The CTE accessible_accounts of list_recurring_transactions: the accounts u
\* owns and those of the groups u is a member of.
accessible_accounts(u) ==
    {a \in Accounts : AccountOwner(a) = u}
    \cup {a \in Accounts : \E g \in Groups : <<g, a>> \in agm /\ agu[<<g, u>>] # NoRole}

\* A row lock taken by a tick statement, held until the statement ends.
Locked(r) == \E w \in Workers : r \in tick[w].held

Reply(p, status) ==
    /\ req[p] = Idle
    /\ resp' = status
    /\ UNCHANGED req

\* let id = Uuid::new_v4(): the first id of RIdSeq that no row uses.
NewRId ==
    RIdSeq[CHOOSE i \in 1..Len(RIdSeq) :
              /\ RIdSeq[i] \notin DOMAIN rt
              /\ \A j \in 1..(i - 1) : RIdSeq[j] \in DOMAIN rt]

create_recurring_transaction(p, u, a, d, t, en) ==
    /\ IF ensure_account_edit_access(u, a) # OK
       THEN Reply(p, ensure_account_edit_access(u, a)) /\ UNCHANGED rt
       ELSE /\ RIds \ DOMAIN rt # {}
            /\ rt' = rt @@ (NewRId :>
                        [account_id |-> a, interval_days |-> d, next_occurs_at |-> t,
                         is_enabled |-> Coalesce(en, TRUE)])
            /\ Reply(p, OK)
    /\ UNCHANGED <<txns, now, tick, nticks, advances>>
    /\ UNCHANGED <<groups, names, agu, agm>>

\* The UPDATE of update_recurring_transaction.
UpdatedRow(row, pl) ==
    [account_id |-> Coalesce(pl.account_id, row.account_id),
     interval_days |-> Coalesce(pl.interval_days, row.interval_days),
     next_occurs_at |-> Coalesce(pl.next_occurs_at, row.next_occurs_at),
     is_enabled |-> Coalesce(pl.is_enabled, row.is_enabled)]

\* The handler without the check of the account of the payload.
update_checking_current_account(p, u, r, pl) ==
    /\ IF r \notin DOMAIN rt THEN Reply(p, RECURRING_NOT_FOUND) /\ UNCHANGED rt
       ELSE IF ensure_account_edit_access(u, rt[r].account_id) # OK
       THEN Reply(p, ensure_account_edit_access(u, rt[r].account_id)) /\ UNCHANGED rt
       ELSE /\ ~Locked(r)
            /\ rt' = [rt EXCEPT ![r] = UpdatedRow(rt[r], pl)]
            /\ Reply(p, OK)
    /\ UNCHANGED <<txns, now, tick, nticks, advances>>
    /\ UNCHANGED <<groups, names, agu, agm>>

\* The UPDATE waits for a tick statement that holds the row.
update_recurring_transaction(p, u, r, pl) ==
    /\ IF r \notin DOMAIN rt THEN Reply(p, RECURRING_NOT_FOUND) /\ UNCHANGED rt
       ELSE IF ensure_account_edit_access(u, rt[r].account_id) # OK
       THEN Reply(p, ensure_account_edit_access(u, rt[r].account_id)) /\ UNCHANGED rt
       ELSE IF pl.account_id # None
               /\ ensure_account_edit_access(u, Coalesce(pl.account_id, "")) # OK
       THEN Reply(p, ensure_account_edit_access(u, Coalesce(pl.account_id, "")))
            /\ UNCHANGED rt
       ELSE /\ ~Locked(r)
            /\ rt' = [rt EXCEPT ![r] = UpdatedRow(rt[r], pl)]
            /\ Reply(p, OK)
    /\ UNCHANGED <<txns, now, tick, nticks, advances>>
    /\ UNCHANGED <<groups, names, agu, agm>>

\* The interval added to the time of the statement.
RolloverFromNow(row) == [row EXCEPT !.next_occurs_at = now + row.interval_days]

\* next_occurs_at + make_interval(days => interval_days)
Rollover(row) == [row EXCEPT !.next_occurs_at = @ + row.interval_days]

\* A skip that writes the date computed from the clock.
skip_from_now(p, u, r) ==
    /\ IF r \notin DOMAIN rt THEN Reply(p, RECURRING_NOT_FOUND) /\ UNCHANGED rt
       ELSE IF ensure_account_edit_access(u, rt[r].account_id) # OK
       THEN Reply(p, ensure_account_edit_access(u, rt[r].account_id)) /\ UNCHANGED rt
       ELSE /\ ~Locked(r)
            /\ rt[r].next_occurs_at <= MaxNow
            /\ rt' = [rt EXCEPT ![r] = RolloverFromNow(rt[r])]
            /\ Reply(p, OK)
    /\ UNCHANGED <<txns, now, tick, nticks, advances>>
    /\ UNCHANGED <<groups, names, agu, agm>>

\* A skip that books the skipped period as the worker would.
skip_and_fire(p, u, r) ==
    /\ IF r \notin DOMAIN rt
       THEN Reply(p, RECURRING_NOT_FOUND) /\ UNCHANGED <<rt, txns>>
       ELSE IF ensure_account_edit_access(u, rt[r].account_id) # OK
       THEN Reply(p, ensure_account_edit_access(u, rt[r].account_id))
            /\ UNCHANGED <<rt, txns>>
       ELSE /\ ~Locked(r)
            /\ rt[r].next_occurs_at <= MaxNow
            /\ rt' = [rt EXCEPT ![r] = Rollover(rt[r])]
            /\ txns' = txns (+) SetToBag({[account_id |-> rt[r].account_id,
                                           occurred_at |-> rt[r].next_occurs_at,
                                           src |-> r]})
            /\ Reply(p, OK)
    /\ UNCHANGED <<now, tick, nticks, advances>>
    /\ UNCHANGED <<groups, names, agu, agm>>

skip_recurring_transaction(p, u, r) ==
    /\ IF r \notin DOMAIN rt THEN Reply(p, RECURRING_NOT_FOUND) /\ UNCHANGED rt
       ELSE IF ensure_account_edit_access(u, rt[r].account_id) # OK
       THEN Reply(p, ensure_account_edit_access(u, rt[r].account_id)) /\ UNCHANGED rt
       ELSE /\ ~Locked(r)
            /\ rt[r].next_occurs_at <= MaxNow
            /\ rt' = [rt EXCEPT ![r] = Rollover(rt[r])]
            /\ Reply(p, OK)
    /\ UNCHANGED <<txns, now, tick, nticks, advances>>
    /\ UNCHANGED <<groups, names, agu, agm>>

\* The handler without its call of ensure_account_edit_access.
delete_unchecked(p, u, r) ==
    /\ IF r \notin DOMAIN rt THEN Reply(p, RECURRING_NOT_FOUND) /\ UNCHANGED rt
       ELSE /\ ~Locked(r)
            /\ rt' = [x \in DOMAIN rt \ {r} |-> rt[x]]
            /\ Reply(p, NO_CONTENT)
    /\ UNCHANGED <<txns, now, tick, nticks, advances>>
    /\ UNCHANGED <<groups, names, agu, agm>>

\* DELETE FROM recurring_transactions WHERE id = $1 AND account_id = $2; the
\* DELETE waits for a tick statement that holds the row.
delete_recurring_transaction(p, u, r) ==
    /\ IF r \notin DOMAIN rt THEN Reply(p, RECURRING_NOT_FOUND) /\ UNCHANGED rt
       ELSE IF ensure_account_edit_access(u, rt[r].account_id) # OK
       THEN Reply(p, ensure_account_edit_access(u, rt[r].account_id)) /\ UNCHANGED rt
       ELSE /\ ~Locked(r)
            /\ rt' = [x \in DOMAIN rt \ {r} |-> rt[x]]
            /\ Reply(p, NO_CONTENT)
    /\ UNCHANGED <<txns, now, tick, nticks, advances>>
    /\ UNCHANGED <<groups, names, agu, agm>>

(***************************************************************************)
(* The worker.  refresh_recurring_transactions is one statement: the CTE   *)
(* due locks the due rows (FOR UPDATE SKIP LOCKED), and the INSERT and the *)
(* UPDATE that read it take effect together when the statement ends.       *)
(***************************************************************************)
\* last: how the worker's previous statement ended; at, quiet: the NOW() of
\* the current (or, once idle, the previous) statement, and whether no row
\* was due when it started.
NoTick == [pc |-> "idle", at |-> 0, snap |-> {}, seen |-> {}, held |-> {},
           quiet |-> FALSE, last |-> "none"]

\* The CTE without its WHERE clause.
DueAlways(row, t) == TRUE

\* WHERE next_occurs_at <= NOW()
Due(row, t) == row.next_occurs_at <= t

\* The statement starts: its snapshot and its NOW().
TickBegin(w) ==
    /\ tick[w].pc = "idle"
    /\ nticks < MaxTicks
    /\ nticks' = nticks + 1
    /\ tick' = [tick EXCEPT ![w] = [pc |-> "scan", at |-> now,
                    snap |-> {r \in DOMAIN rt : Due(rt[r], now)},
                    seen |-> {}, held |-> {},
                    quiet |-> \A r \in DOMAIN rt : rt[r].next_occurs_at > now,
                    last |-> tick[w].last]]
    /\ UNCHANGED <<rt, txns, now, advances>>
    /\ UNCHANGED gvars

\* FOR UPDATE without SKIP LOCKED: the statement waits for the holder of the
\* row.
TickLockWait(w, r) ==
    /\ tick[w].pc = "scan"
    /\ r \in tick[w].snap \ tick[w].seen
    /\ ~Locked(r)
    /\ IF r \in DOMAIN rt /\ Due(rt[r], tick[w].at)
       THEN tick' = [tick EXCEPT ![w].seen = @ \cup {r}, ![w].held = @ \cup {r}]
       ELSE tick' = [tick EXCEPT ![w].seen = @ \cup {r}]
    /\ UNCHANGED <<rt, txns, now, nticks, advances>>
    /\ UNCHANGED gvars

\* FOR UPDATE SKIP LOCKED on one row of the snapshot: a row another statement
\* holds is passed over; a row changed since the snapshot is locked in its
\* latest version, if that version still satisfies the WHERE clause.
TickLock(w, r) ==
    /\ tick[w].pc = "scan"
    /\ r \in tick[w].snap \ tick[w].seen
    /\ IF ~Locked(r) /\ r \in DOMAIN rt /\ Due(rt[r], tick[w].at)
       THEN tick' = [tick EXCEPT ![w].seen = @ \cup {r}, ![w].held = @ \cup {r}]
       ELSE tick' = [tick EXCEPT ![w].seen = @ \cup {r}]
    /\ UNCHANGED <<rt, txns, now, nticks, advances>>
    /\ UNCHANGED gvars

\* One transaction for every interval missed up to the time of the statement.
InsertedBacklog(due) ==
    SetToBag({[account_id |-> rt[x[1]].account_id, occurred_at |-> x[2],
               src |-> x[1]] :
                 x \in {y \in due \X Times :
                            rt[y[1]].next_occurs_at <= y[2] /\ y[2] <= now}})

\* INSERT INTO transactions ... SELECT ..., next_occurs_at FROM due
Inserted(due) ==
    SetToBag({[account_id |-> rt[r].account_id,
               occurred_at |-> rt[r].next_occurs_at,
               src |-> r] : r \in due})

\* UPDATE recurring_transactions rt ... FROM due WHERE rt.id = due.id
UpdatedIds(due) == {r \in DOMAIN rt : r \in due}

\* The UPDATE without its join on due.
AdvancedAll(due) == [r \in DOMAIN rt |-> Rollover(rt[r])]

Advanced(due) ==
    [r \in DOMAIN rt |-> IF r \in UpdatedIds(due) THEN Rollover(rt[r]) ELSE rt[r]]

\* The statement ends: the rows of due are inserted and advanced, the locks
\* are released.
TickCommit(w) ==
    /\ tick[w].pc = "scan"
    /\ tick[w].seen = tick[w].snap
    /\ txns' = txns (+) Inserted(tick[w].held)
    /\ rt' = Advanced(tick[w].held)
    /\ advances' = [r \in RIds |-> IF r \in UpdatedIds(tick[w].held)
                                   THEN advances[r] + 1 ELSE advances[r]]
    /\ tick' = [tick EXCEPT ![w] = [NoTick EXCEPT !.at = tick[w].at,
                                                 !.quiet = tick[w].quiet,
                                                 !.last = "committed"]]
    /\ UNCHANGED <<now, nticks>>
    /\ UNCHANGED gvars

\* A failure after the INSERT that keeps the inserted rows.
TickAbortPartial(w) ==
    /\ tick[w].pc = "scan"
    /\ txns' = txns (+) Inserted(tick[w].held)
    /\ tick' = [tick EXCEPT ![w] = [NoTick EXCEPT !.at = tick[w].at,
                                                 !.quiet = tick[w].quiet,
                                                 !.last = "failed"]]
    /\ UNCHANGED <<rt, now, nticks, advances>>
    /\ UNCHANGED gvars

\* The error of the statement ends the loop of main.
TickAbortStop(w) ==
    /\ tick[w].pc = "scan"
    /\ tick' = [tick EXCEPT ![w] = [NoTick EXCEPT !.pc = "stopped",
                                                 !.at = tick[w].at,
                                                 !.quiet = tick[w].quiet,
                                                 !.last = "failed"]]
    /\ UNCHANGED <<rt, txns, now, nticks, advances>>
    /\ UNCHANGED gvars

\* The statement fails (store error, lost connection, crash): it is rolled
\* back, its locks are released, and main logs the error and goes on.
TickAbort(w) ==
    /\ tick[w].pc = "scan"
    /\ tick' = [tick EXCEPT ![w] = [NoTick EXCEPT !.at = tick[w].at,
                                                 !.quiet = tick[w].quiet,
                                                 !.last = "failed"]]
    /\ UNCHANGED <<rt, txns, now, nticks, advances>>
    /\ UNCHANGED gvars

AdvanceClock ==
    /\ now < MaxNow
    /\ now' = now + 1
    /\ UNCHANGED <<rt, txns, tick, nticks, advances>>
    /\ UNCHANGED gvars

(***************************************************************************)
(* Specifications                                                          *)
(***************************************************************************)
\* The store after the migrations: users and accounts, nothing else.
Init ==
    /\ groups = [g \in Groups |-> NoUser]
    /\ names = [g \in Groups |-> IF groups[g] = NoUser THEN NoName ELSE NewName]
    /\ agu = [k \in Groups \X Users |-> NoRole]
    /\ agm = {}
    /\ req = [p \in Reqs |-> Idle]
    /\ resp = NoResp
    /\ rt = <<>>
    /\ txns = EmptyBag
    /\ now = 0
    /\ tick = [w \in Workers |-> NoTick]
    /\ nticks = 0
    /\ advances = [r \in RIds |-> 0]

\* Requests are served concurrently: any slot may take its next step.
NextGroups ==
    \/ \E p \in Reqs, u \in Users, ids \in {{}, {"a1"}} : CgStart(p, u, ids)
    \/ \E p \in Reqs : CgInsertGroup(p)
    \/ \E p \in Reqs : CgInsertAdmin(p)
    \/ \E p \in Reqs : CgInsertMember(p)
    \/ \E p \in Reqs, u \in Users, g \in NewGroupIds, t \in Users \cup {NoUser},
          r \in RoleInputs : CguStart(p, u, g, t, r)
    \/ \E p \in Reqs : CguUpsert(p)
    \/ \E p \in Reqs, u \in Users, g \in NewGroupIds, t \in Users, r \in RoleInputs :
          UguStart(p, u, g, t, r)
    \/ \E p \in Reqs : UguUpdate(p)
    \/ \E p \in Reqs, u \in Users, g \in NewGroupIds, t \in Users : DguStart(p, u, g, t)
    \/ \E p \in Reqs : DguCount(p)
    \/ \E p \in Reqs : DguTargetRole(p)
    \/ \E p \in Reqs : DguDelete(p)

SpecGroups == Init /\ [][NextGroups]_vars

\* Requests are served one at a time.
Alone(p) == \A q \in Reqs \ {p} : req[q] = Idle

NextGroupsSeq ==
    \/ \E p \in Reqs, u \in Users, ids \in {{}, {"a1"}} :
          Alone(p) /\ CgStart(p, u, ids)
    \/ \E p \in Reqs : Alone(p) /\ CgInsertGroup(p)
    \/ \E p \in Reqs : Alone(p) /\ CgInsertAdmin(p)
    \/ \E p \in Reqs : Alone(p) /\ CgInsertMember(p)
    \/ \E p \in Reqs, u \in Users, g \in NewGroupIds, t \in Users \cup {NoUser},
          r \in RoleInputs : Alone(p) /\ CguStart(p, u, g, t, r)
    \/ \E p \in Reqs : Alone(p) /\ CguUpsert(p)
    \/ \E p \in Reqs, u \in Users, g \in NewGroupIds, t \in Users, r \in RoleInputs :
          Alone(p) /\ UguStart(p, u, g, t, r)
    \/ \E p \in Reqs : Alone(p) /\ UguUpdate(p)
    \/ \E p \in Reqs, u \in Users, g \in NewGroupIds, t \in Users :
          Alone(p) /\ DguStart(p, u, g, t)
    \/ \E p \in Reqs : Alone(p) /\ DguCount(p)
    \/ \E p \in Reqs : Alone(p) /\ DguTargetRole(p)
    \/ \E p \in Reqs : Alone(p) /\ DguDelete(p)

SpecGroupsSeq == Init /\ [][NextGroupsSeq]_vars

\* u1 has created g1 over its account a1 and added u2 as edit, u3 as view.
InitShared ==
    /\ groups = [g \in Groups |-> IF g = "g1" THEN "u1" ELSE NoUser]
    /\ names = [g \in Groups |-> IF groups[g] = NoUser THEN NoName ELSE NewName]
    /\ agu = [k \in Groups \X Users |->
                 CASE k[1] # "g1" -> NoRole
                   [] k[2] = "u1" -> "admin" [] k[2] = "u2" -> "edit" [] OTHER -> "view"]
    /\ agm = {<<"g1", "a1">>}
    /\ req = [p \in Reqs |-> Idle]
    /\ resp = NoResp
    /\ rt = <<>>
    /\ txns = EmptyBag
    /\ now = 0
    /\ tick = [w \in Workers |-> NoTick]
    /\ nticks = 0
    /\ advances = [r \in RIds |-> 0]

\* The payloads of update_recurring_transaction that change the cadence, one
\* field at a time.
CadencePayloads ==
    {pl \in [account_id : {None},
             interval_days : {None} \cup {Some(d) : d \in Intervals},
             next_occurs_at : {None} \cup {Some(t) : t \in Times},
             is_enabled : {None}] :
        pl.interval_days = None \/ pl.next_occurs_at = None}

\* Two workers and the users of one recurring transaction on account a1.
Next ==
    \/ \E u \in Users, d \in Intervals, t \in Times :
          DOMAIN rt = {} /\ create_recurring_transaction("p1", u, "a1", d, t, None)
    \/ \E u \in Users, r \in RIds, pl \in CadencePayloads :
          update_recurring_transaction("p1", u, r, pl)
    \/ \E u \in Users, r \in RIds : skip_recurring_transaction("p1", u, r)
    \/ \E w \in Workers : TickBegin(w)
    \/ \E w \in Workers, r \in RIds : TickLock(w, r)
    \/ \E w \in Workers : TickCommit(w)
    \/ \E w \in Workers : TickAbort(w)
    \/ AdvanceClock

Spec == InitShared /\ [][Next]_vars

\* Two recurring transactions on a1, of any cadence, at any time.
InitDue ==
    /\ groups = [g \in Groups |-> IF g = "g1" THEN "u1" ELSE NoUser]
    /\ names = [g \in Groups |-> IF groups[g] = NoUser THEN NoName ELSE NewName]
    /\ agu = [k \in Groups \X Users |->
                 IF k = <<"g1", "u1">> THEN "admin" ELSE NoRole]
    /\ agm = {<<"g1", "a1">>}
    /\ req = [p \in Reqs |-> Idle]
    /\ resp = NoResp
    /\ rt \in [RIds -> [account_id : {"a1"}, interval_days : Intervals,
                        next_occurs_at : Times, is_enabled : {TRUE}]]
    /\ txns = EmptyBag
    /\ now \in Times
    /\ tick = [w \in Workers |-> NoTick]
    /\ nticks = 0
    /\ advances = [r \in RIds |-> 0]

\* The workers alone, ticking again and again as time passes.
NextTicks ==
    \/ \E w \in Workers : TickBegin(w)
    \/ \E w \in Workers, r \in RIds : TickLock(w, r)
    \/ \E w \in Workers : TickCommit(w)
    \/ \E w \in Workers : TickAbort(w)
    \/ AdvanceClock

SpecTicks == InitDue /\ [][NextTicks]_vars

\* Every worker has started its statement before any statement ends.
AllStarted == \A w \in Workers : tick[w].pc = "scan" \/ tick[w].last = "committed"

\* Every worker runs one tick, all at the same time, and none fails.
NextRace ==
    \/ \E w \in Workers : tick[w].last = "none" /\ TickBegin(w)
    \/ \E w \in Workers, r \in RIds : TickLock(w, r)
    \/ \E w \in Workers : AllStarted /\ TickCommit(w)

SpecRace == InitDue /\ [][NextRace]_vars

\* The worker w1 ticks while the statement of another claimer, w2, has begun
\* and keeps the rows it locked: it never ends.
NextContend ==
    \/ TickBegin("w2")
    \/ \E r \in RIds : TickLock("w2", r)
    \/ TickBegin("w1")
    \/ \E r \in RIds : TickLock("w1", r)
    \/ TickCommit("w1")
    \/ AdvanceClock

SpecContend == InitDue /\ [][NextContend]_vars

\* The database runs a statement that has begun to its end.
SpecContendFair ==
    /\ SpecContend
    /\ \A r \in RIds : WF_vars(TickLock("w1", r))
    /\ WF_vars(TickCommit("w1"))

\* One worker whose statement may fail; a failed statement is followed by a
\* tick that does not fail.
NextRetry ==
    \/ TickBegin("w1")
    \/ \E r \in RIds : TickLock("w1", r)
    \/ TickCommit("w1")
    \/ nticks < MaxTicks /\ tick["w1"].last # "failed" /\ TickAbort("w1")
    \/ AdvanceClock

SpecRetry == InitDue /\ [][NextRetry]_vars

\* interval.tick() of main fires again and again, and the database runs a
\* statement that has begun to its end.
SpecRetryFair ==
    /\ SpecRetry
    /\ WF_vars(TickBegin("w1"))
    /\ \A r \in RIds : WF_vars(TickLock("w1", r))
    /\ WF_vars(TickCommit("w1"))

\* One worker ticks, without failures, at an instant that stays the same; no
\* user edits the obligations.
NextBacklog ==
    \/ TickBegin("w1")
    \/ \E r \in RIds : TickLock("w1", r)
    \/ TickCommit("w1")

SpecBacklog == InitDue /\ [][NextBacklog]_vars

\* Two daily obligations on a1, each enabled or disabled (is_enabled as sent
\* to create_recurring_transaction), at any time.
InitFlags ==
    /\ groups = [g \in Groups |-> IF g = "g1" THEN "u1" ELSE NoUser]
    /\ names = [g \in Groups |-> IF groups[g] = NoUser THEN NoName ELSE NewName]
    /\ agu = [k \in Groups \X Users |->
                 IF k = <<"g1", "u1">> THEN "admin" ELSE NoRole]
    /\ agm = {<<"g1", "a1">>}
    /\ req = [p \in Reqs |-> Idle]
    /\ resp = NoResp
    /\ rt \in [RIds -> [account_id : {"a1"}, interval_days : {1},
                        next_occurs_at : Times, is_enabled : BOOLEAN]]
    /\ txns = EmptyBag
    /\ now \in Times
    /\ tick = [w \in Workers |-> NoTick]
    /\ nticks = 0
    /\ advances = [r \in RIds |-> 0]

SpecFlags == InitFlags /\ [][NextBacklog]_vars

\* One skip of r1, by any user, and one tick, in any interleaving.
NextSkipRace ==
    \/ \E u \in Users : resp = NoResp /\ skip_recurring_transaction("p1", u, "r1")
    \/ nticks = 0 /\ TickBegin("w1")
    \/ \E r \in RIds : TickLock("w1", r)
    \/ TickCommit("w1")

SpecSkipRace == InitDue /\ [][NextSkipRace]_vars

\* g1 with two admins and a viewer, and the requests that remove members.
InitTwoAdmins ==
    /\ groups = [g \in Groups |-> IF g = "g1" THEN "u1" ELSE NoUser]
    /\ names = [g \in Groups |-> IF groups[g] = NoUser THEN NoName ELSE NewName]
    /\ agu = [k \in Groups \X Users |->
                 CASE k[1] # "g1" -> NoRole [] k[2] = "u3" -> "view" [] OTHER -> "admin"]
    /\ agm = {<<"g1", "a1">>}
    /\ req = [p \in Reqs |-> Idle]
    /\ resp = NoResp
    /\ rt = <<>>
    /\ txns = EmptyBag
    /\ now = 0
    /\ tick = [w \in Workers |-> NoTick]
    /\ nticks = 0
    /\ advances = [r \in RIds |-> 0]

NextRemove ==
    \/ \E p \in Reqs, u \in Users, g \in Groups, t \in Users : DguStart(p, u, g, t)
    \/ \E p \in Reqs : DguCount(p)
    \/ \E p \in Reqs : DguTargetRole(p)
    \/ \E p \in Reqs : DguDelete(p)

SpecRemove == InitTwoAdmins /\ [][NextRemove]_vars

\* The owner of a1 skipping periods of its obligations while a worker ticks.
NextSkip ==
    \/ \E u \in Users, r \in RIds : skip_recurring_transaction("p1", u, r)
    \/ TickBegin("w1")
    \/ \E r \in RIds : TickLock("w1", r)
    \/ TickCommit("w1")
    \/ AdvanceClock

SpecSkip == InitDue /\ [][NextSkip]_vars

\* An account id that has no row in accounts.
NoAccount == "a0"

\* The payloads of update_recurring_transaction that move the obligation.
MovePayloads ==
    [account_id : {None},
     interval_days : {None},
     next_occurs_at : {None, Some(0)},
     is_enabled : {None}]

\* The members of g1 are managed, one request at a time, while the users keep
\* one daily obligation.
NextShared ==
    \/ \E u \in Users, g \in Groups, t \in Users \cup {NoUser}, r \in RoleInputs :
          CguStart("p1", u, g, t, r)
    \/ CguUpsert("p1")
    \/ \E u \in Users, g \in Groups, t \in Users, r \in RoleInputs :
          UguStart("p1", u, g, t, r)
    \/ UguUpdate("p1")
    \/ \E u \in Users, g \in Groups, t \in Users : DguStart("p1", u, g, t)
    \/ DguCount("p1")
    \/ DguTargetRole("p1")
    \/ DguDelete("p1")
    \/ \E u \in Users, a \in Accounts \cup {NoAccount} :
          DOMAIN rt = {} /\ create_recurring_transaction("p1", u, a, 1, 0, None)
    \/ \E u \in Users, r \in RIds, pl \in MovePayloads :
          update_recurring_transaction("p1", u, r, pl)
    \/ \E u \in Users, r \in RIds : skip_recurring_transaction("p1", u, r)
    \/ \E u \in Users, r \in RIds : delete_recurring_transaction("p1", u, r)

SpecShared == InitShared /\ [][NextShared]_vars

\* u1 has created g1 and g2, has exposed its account a1 through any of them
\* and has given u2 and u3 any role, or none, in each.
InitRoles ==
    /\ groups = [g \in Groups |-> "u1"]
    /\ names = [g \in Groups |-> IF groups[g] = NoUser THEN NoName ELSE NewName]
    /\ agu \in {f \in [Groups \X Users -> Roles \cup {NoRole}] :
                   \A g \in Groups : f[<<g, "u1">>] = "admin"}
    /\ agm \in SUBSET (Groups \X {"a1"})
    /\ req = [p \in Reqs |-> Idle]
    /\ resp = NoResp
    /\ rt = <<>>
    /\ txns = EmptyBag
    /\ now = 0
    /\ tick = [w \in Workers |-> NoTick]
    /\ nticks = 0
    /\ advances = [r \in RIds |-> 0]

\* The users other than the owner of a1 keep one obligation on a1.
NextAccess ==
    \/ \E u \in Users \ {AccountOwner("a1")} :
          DOMAIN rt = {} /\ create_recurring_transaction("p1", u, "a1", 1, 0, None)
    \/ \E u \in Users \ {AccountOwner("a1")}, r \in RIds :
          skip_recurring_transaction("p1", u, r)
    \/ \E u \in Users \ {AccountOwner("a1")}, r \in RIds :
          delete_recurring_transaction("p1", u, r)

SpecAccess == InitRoles /\ [][NextAccess]_vars

\* As InitRoles, with u2 and u3 viewers of both groups.
InitViewers ==
    /\ groups = [g \in Groups |-> "u1"]
    /\ names = [g \in Groups |-> IF groups[g] = NoUser THEN NoName ELSE NewName]
    /\ agu = [k \in Groups \X Users |-> IF k[2] = "u1" THEN "admin" ELSE "view"]
    /\ agm \in SUBSET (Groups \X {"a1"})
    /\ req = [p \in Reqs |-> Idle]
    /\ resp = NoResp
    /\ rt = <<>>
    /\ txns = EmptyBag
    /\ now = 0
    /\ tick = [w \in Workers |-> NoTick]
    /\ nticks = 0
    /\ advances = [r \in RIds |-> 0]

\* The admin u1 changes the roles of u2 and u3.
NextRaise ==
    \/ \E g \in Groups, t \in Users \ {"u1"}, r \in RoleInputs :
          UguStart("p1", "u1", g, t, r)
    \/ UguUpdate("p1")

SpecRaise == InitViewers /\ [][NextRaise]_vars

\* The admin u1 moves u2 and u3 between view and edit while all three users
\* work on one obligation.
NextDemote ==
    \/ \E t \in Users \ {"u1"}, r \in {"view", "edit"} :
          UguStart("p1", "u1", "g1", t, r)
    \/ UguUpdate("p1")
    \/ \E u \in Users, a \in Accounts :
          DOMAIN rt = {} /\ create_recurring_transaction("p1", u, a, 1, 0, None)
    \/ \E u \in Users, r \in RIds, pl \in MovePayloads :
          update_recurring_transaction("p1", u, r, pl)
    \/ \E u \in Users, r \in RIds : skip_recurring_transaction("p1", u, r)
    \/ \E u \in Users, r \in RIds : delete_recurring_transaction("p1", u, r)

SpecDemote == InitShared /\ [][NextDemote]_vars

\* Every user manages the members u2 and u3 of either group id and works on
\* an obligation of either account or of an account that has no row.
NextFailures ==
    \/ \E u \in Users, g \in Groups, t \in {"u3", NoUser}, r \in {"edit", "owner"} :
          CguStart("p1", u, g, t, r)
    \/ CguUpsert("p1")
    \/ \E u \in Users, g \in Groups, r \in {"view", "edit"} :
          UguStart("p1", u, g, "u2", r)
    \/ UguUpdate("p1")
    \/ \E u \in Users, g \in Groups : DguStart("p1", u, g, "u3")
    \/ DguCount("p1")
    \/ DguTargetRole("p1")
    \/ DguDelete("p1")
    \/ \E u \in Users, a \in Accounts \cup {NoAccount} :
          DOMAIN rt = {} /\ create_recurring_transaction("p1", u, a, 1, 0, None)
    \/ \E u \in Users, r \in RIds, pl \in MovePayloads :
          update_recurring_transaction("p1", u, r, pl)
    \/ \E u \in Users, r \in RIds : skip_recurring_transaction("p1", u, r)
    \/ \E u \in Users, r \in RIds : delete_recurring_transaction("p1", u, r)

SpecFailures == InitShared /\ [][NextFailures]_vars

\* The accounts a user owns.
OwnAccounts(u) == {a \in Accounts : AccountOwner(a) = u}

\* Users create groups over all their own accounts; a request may fail at any
\* of its statements.
NextCreate ==
    \/ \E p \in Reqs, u \in Users : CgStart(p, u, OwnAccounts(u))
    \/ \E p \in Reqs : CgInsertGroup(p)
    \/ \E p \in Reqs : CgInsertAdmin(p)
    \/ \E p \in Reqs : CgInsertMember(p)
    \/ \E p \in Reqs : CgAbort(p)

SpecCreate == Init /\ [][NextCreate]_vars

\* The payload of update_recurring_transaction that moves the obligation to
\* account a.
MoveTo(a) ==
    [account_id |-> Some(a), interval_days |-> None, next_occurs_at |-> None,
     is_enabled |-> None]

\* The admin u1 moves u2 and u3 between view and edit; the users create an
\* obligation on a1 and move it between the accounts, also to an account
\* that has no row.
NextMove ==
    \/ \E t \in Users \ {"u1"}, r \in {"view", "edit"} :
          UguStart("p1", "u1", "g1", t, r)
    \/ UguUpdate("p1")
    \/ \E u \in Users :
          DOMAIN rt = {} /\ create_recurring_transaction("p1", u, "a1", 1, 0, None)
    \/ \E u \in Users, r \in RIds, a \in Accounts \cup {NoAccount} :
          update_recurring_transaction("p1", u, r, MoveTo(a))

SpecMove == InitShared /\ [][NextMove]_vars

\* Users create a group over any accounts, its admins add members, and users
\* rename it and replace its accounts, one request at a time.
NextUpdateGroup ==
    \/ \E u \in Users, ids \in SUBSET Accounts : CgStart("p1", u, ids)
    \/ CgInsertGroup("p1")
    \/ CgInsertAdmin("p1")
    \/ CgInsertMember("p1")
    \/ \E u \in Users, t \in Users, r \in {"admin", "view"} :
          CguStart("p1", u, "g1", t, r)
    \/ CguUpsert("p1")
    \/ \E u \in Users, g \in Groups, nm \in {None, Some(OtherName)},
          ids \in {None} \cup {Some(S) : S \in SUBSET Accounts} :
          update_account_group("p1", u, g, nm, ids)

SpecUpdateGroup == Init /\ [][NextUpdateGroup]_vars

\* u1 made g1 over its account a1 and was later demoted by u2: the owner of
\* the exposed account is a viewer, u2 the admin, u3 an editor.
InitMembers ==
    /\ groups = [g \in Groups |-> IF g = "g1" THEN "u1" ELSE NoUser]
    /\ names = [g \in Groups |-> IF groups[g] = NoUser THEN NoName ELSE NewName]
    /\ agu = [k \in Groups \X Users |->
                 CASE k[1] # "g1" -> NoRole
                   [] k[2] = "u1" -> "view" [] k[2] = "u2" -> "admin" [] OTHER -> "edit"]
    /\ agm = {<<"g1", "a1">>}
    /\ req = [p \in Reqs |-> Idle]
    /\ resp = NoResp
    /\ rt = <<>>
    /\ txns = EmptyBag
    /\ now = 0
    /\ tick = [w \in Workers |-> NoTick]
    /\ nticks = 0
    /\ advances = [r \in RIds |-> 0]

\* Member management of both group ids by every user, one request at a time.
NextMembers ==
    \/ \E p \in Reqs, u \in Users, g \in Groups, t \in Users \cup {NoUser},
          r \in RoleInputs : Alone(p) /\ CguStart(p, u, g, t, r)
    \/ \E p \in Reqs : Alone(p) /\ CguUpsert(p)
    \/ \E p \in Reqs, u \in Users, g \in Groups, t \in Users, r \in RoleInputs :
          Alone(p) /\ UguStart(p, u, g, t, r)
    \/ \E p \in Reqs : Alone(p) /\ UguUpdate(p)
    \/ \E p \in Reqs, u \in Users, g \in Groups, t \in Users :
          Alone(p) /\ DguStart(p, u, g, t)
    \/ \E p \in Reqs : Alone(p) /\ DguCount(p)
    \/ \E p \in Reqs : Alone(p) /\ DguTargetRole(p)
    \/ \E p \in Reqs : Alone(p) /\ DguDelete(p)

SpecMembers == InitMembers /\ [][NextMembers]_vars

(***************************************************************************)
(* Properties of the groups                                                *)
(***************************************************************************)
\* C2: in every reachable state, whatever the interleaving of the group
\* operations, a group with at least one row in account_group_users has at
\* least one member whose role is admin.
GroupHasAdmin == \A g \in Groups : Members(g) # {} => admin_count(g) >= 1

\* The request of slot p is a remove_member that has passed ensure_group_admin
\* and whose target is the only admin of the group.
RemovesOnlyAdmin(p) ==
    /\ req[p].op = "remove_member"
    /\ agu[<<req[p].g, req[p].target>>] = "admin"
    /\ admin_count(req[p].g) = 1

\* The request of slot p gets its response in this step.
Completes(p) == req[p] # Idle /\ req'[p] = Idle

\* C3: delete_account_group_user issued by a group admin on the only admin of
\* the group is rejected with the last-admin error ("At least one admin
\* required"), and the rows of account_group_users are the same after the call
\* as before it.
RemoveLastAdminRejected ==
    [][\A p \in Reqs : RemovesOnlyAdmin(p) =>
          /\ agu' = agu
          /\ Completes(p) => resp' = AT_LEAST_ONE_ADMIN]_vars

\* A remove_member aimed at the only admin has been answered.
RemoveLastAdminSeen ==
    /\ resp = AT_LEAST_ONE_ADMIN
    /\ \A p \in Reqs : req[p] = Idle
    /\ \E g \in Groups : admin_count(g) = 1 /\ Cardinality(Members(g)) >= 2

\* The request of slot p is about to write a role below admin on the only
\* admin of the group (update_account_group_user, or the upsert of
\* create_account_group_user on an existing member).
DemotesOnlyAdmin(p) ==
    /\ req[p].op \in {"update_member", "add_member"}
    /\ req[p].role \in {"view", "edit"}
    /\ agu[<<req[p].g, req[p].target>>] = "admin"
    /\ admin_count(req[p].g) = 1

\* C4: demoting the only admin of a group to view or edit, through
\* update_account_group_user or through the upsert of
\* create_account_group_user, fails and leaves every role unchanged.
DemoteLastAdminRejected ==
    [][\A p \in Reqs : DemotesOnlyAdmin(p) /\ Completes(p) =>
          /\ agu' = agu
          /\ resp'.code \notin {OK.code, NO_CONTENT.code}]_vars

\* C5: the count of admins and the DELETE of delete_account_group_user act as
\* one step: a remove_member that succeeds on an admin leaves an admin in the
\* group, so two concurrent removals of the two admins never both succeed.
RemoveKeepsAnAdmin ==
    [][\A p \in Reqs, g \in Groups :
          (/\ req[p].op = "remove_member"
           /\ req[p].g = g
           /\ agu[<<g, req[p].target>>] = "admin"
           /\ Completes(p)
           /\ resp' = NO_CONTENT)
          => admin_count(g)' >= 1]_vars

(***************************************************************************)
(* Properties of the scheduler                                             *)
(***************************************************************************)
\* The scheduler-inserted transactions of obligation r.
TxnsOf(r) == [e \in {x \in DOMAIN txns : x.src = r} |-> txns[e]]

Fired(r) == BagCardinality(TxnsOf(r))

\* The number of scheduler-inserted transactions of r dated at instant t.
FiredAt(r, t) ==
    BagCardinality([e \in {x \in DOMAIN txns : x.src = r /\ x.occurred_at = t}
                       |-> txns[e]])

\* Every worker has finished the one tick it ran.
AllFinished ==
    \A w \in Workers : tick[w].pc = "idle" /\ tick[w].last = "committed"

\* C1: when the workers run the tick concurrently over a set of due
\* obligations, then once all have finished no obligation has two
\* transactions for the same scheduled instant and no obligation that was due
\* is left without a transaction.
ExactlyOncePerDue ==
    AllFinished =>
        /\ \A e \in DOMAIN txns : FiredAt(e.src, e.occurred_at) = 1
        /\ \A r \in DOMAIN rt : Due(rt[r], now) => Fired(r) >= 1

\* The statement of worker w ends successfully in this step.
Commits(w) ==
    tick[w].pc = "scan" /\ tick'[w].pc = "idle" /\ tick'[w].last = "committed"

\* C6: one successful firing of a due obligation with interval_days = d and
\* next_occurs_at = t leaves next_occurs_at = t + d and inserts exactly one
\* transaction, whose occurred_at is t and not the time of the tick.
FiringAdvancesByInterval ==
    [][\A w \in Workers : Commits(w) =>
          \A r \in tick[w].held :
              /\ rt'[r].next_occurs_at = rt[r].next_occurs_at + rt[r].interval_days
              /\ Fired(r)' = Fired(r) + 1
              /\ \A t \in {rt[r].next_occurs_at} :
                    FiredAt(r, t)' = FiredAt(r, t) + 1]_vars

\* The only tick so far ran at time 2 and fired a daily obligation that was
\* due since time 0: its transaction is dated 0 and its next_occurs_at is 1.
FiredOverdue ==
    /\ nticks = 1
    /\ \E w \in Workers : tick[w].last = "committed" /\ tick[w].at = 2
    /\ \E r \in DOMAIN rt :
          /\ rt[r].interval_days = 1
          /\ rt[r].next_occurs_at = 1
          /\ Fired(r) = 1
          /\ FiredAt(r, 0) = 1

\* C7: claim, insert and advance are one atomic unit: in every state, also
\* after a tick has failed, the number of scheduler-inserted transactions of
\* an obligation is the number of times the scheduler has advanced it.
FiredEqualsAdvanced == \A r \in RIds : Fired(r) = advances[r]

\* A tick has failed, another has fired an obligation, and a third holds a
\* claimed obligation that it has neither fired nor advanced yet.
FailedAndFiredAndClaimed ==
    /\ \E w \in Workers : tick[w].last = "failed"
    /\ \E r \in RIds : advances[r] >= 1
    /\ \E w \in Workers : tick[w].pc = "scan" /\ tick[w].held # {}

\* C8: a tick that starts when no obligation is due (every next_occurs_at >
\* now, as right after a tick that fired all that was due) inserts no
\* transaction and changes no next_occurs_at.
QuietTickChangesNothing ==
    [][\A w \in Workers : Commits(w) /\ tick[w].quiet =>
          rt' = rt /\ txns' = txns]_vars

\* At time 0 w1 has fired what was due and w2, started after it with nothing
\* left due, has finished as well.
SecondTickDone ==
    /\ now = 0
    /\ tick["w1"].pc = "idle" /\ tick["w1"].last = "committed" /\ ~tick["w1"].quiet
    /\ tick["w2"].pc = "idle" /\ tick["w2"].last = "committed" /\ tick["w2"].quiet
    /\ txns # EmptyBag
    /\ \A r \in DOMAIN rt : rt[r].next_occurs_at > now

\* C9: across tick, skip and update, next_occurs_at never decreases and
\* changes only by the addition of interval_days to its stored value.
NextOccursOnlyAdvances ==
    [][\A r \in DOMAIN rt :
          /\ rt'[r].next_occurs_at >= rt[r].next_occurs_at
          /\ \/ rt'[r].next_occurs_at = rt[r].next_occurs_at
             \/ rt'[r].next_occurs_at = rt[r].next_occurs_at + rt[r].interval_days]_vars

\* C10: over any ticks interleaved with user operations, no obligation has
\* two scheduler-generated transactions with the same occurred_at.
NeverFiredTwiceForAnInstant ==
    \A e \in DOMAIN txns : FiredAt(e.src, e.occurred_at) <= 1

\* C11: a tick fires an obligation at most once: an obligation that lies
\* several intervals behind gets one transaction and one interval, stays due,
\* and is left for a later tick; the obligations the tick does not hold are
\* untouched.
OneIntervalPerTick ==
    [][\A w \in Workers : Commits(w) =>
          \A r \in DOMAIN rt :
              IF r \in tick[w].held
              THEN /\ Fired(r)' = Fired(r) + 1
                   /\ rt'[r].next_occurs_at - rt[r].next_occurs_at
                        = rt[r].interval_days
                   /\ (rt[r].next_occurs_at + rt[r].interval_days <= tick[w].at
                        => Due(rt'[r], tick[w].at))
              ELSE Fired(r)' = Fired(r) /\ rt'[r] = rt[r]]_vars

\* A daily obligation due since time 0 has been caught up by two ticks that
\* both ran at time 2: one transaction dated 0, one dated 1.
CaughtUpInTwoTicks ==
    /\ nticks = 2
    /\ \A w \in Workers :
          tick[w].pc = "idle" /\ tick[w].last = "committed" /\ tick[w].at = 2
    /\ \E r \in DOMAIN rt :
          /\ rt[r].interval_days = 1
          /\ rt[r].next_occurs_at = 2
          /\ Fired(r) = 2
          /\ FiredAt(r, 0) = 1
          /\ FiredAt(r, 1) = 1

\* C12: a successful skip_recurring_transaction of an obligation with
\* next_occurs_at = t and interval_days = d sets next_occurs_at to t + d,
\* due or not, and leaves the transactions and every other field and
\* obligation unchanged.
SkipAdvancesOnly ==
    [][\A u \in Users, r \in RIds :
          (/\ r \in DOMAIN rt
           /\ ensure_account_edit_access(u, rt[r].account_id) = OK
           /\ skip_recurring_transaction("p1", u, r))
          => /\ rt' = [rt EXCEPT ![r].next_occurs_at = @ + rt[r].interval_days]
             /\ txns' = txns
             /\ resp' = OK]_vars

\* At time 0, before any tick, a daily obligation that was not due has been
\* skipped past the last day of the clock.
SkippedWhenNotDue ==
    /\ now = 0
    /\ nticks = 0
    /\ resp = OK
    /\ txns = EmptyBag
    /\ \E r \in DOMAIN rt :
          rt[r].interval_days = 1 /\ rt[r].next_occurs_at = MaxNow + 1

(***************************************************************************)
(* Properties of the access checks                                         *)
(***************************************************************************)
\* C13: the owner of an account passes the account access check and sees
\* the account whatever the rows of account_group_users and
\* account_group_members are, also with only a view role or no role in the
\* group that exposes it; no group operation revokes it.
OwnerAlwaysPasses ==
    \A a \in Accounts :
        /\ ensure_account_edit_access(AccountOwner(a), a) = OK
        /\ a \in accessible_accounts(AccountOwner(a))

\* The last request, a write on the obligation of a1, succeeded while the
\* owner u1 is no admin of g1 any more and no other member of g1 can edit.
OwnerEditsWithoutRole ==
    /\ resp = OK
    /\ DOMAIN rt = {"r1"}
    /\ rt["r1"].account_id = "a1"
    /\ agu[<<"g1", "u1">>] \in {"view", NoRole}
    /\ \A u \in Users : agu[<<"g1", u>>] \notin {"edit", "admin"}

\* The order view < edit < admin, below them no role.
Rank(role) ==
    CASE role = "admin" -> 3 [] role = "edit" -> 2 [] role = "view" -> 1
      [] OTHER -> 0

\* The highest rank among the roles of u in the groups that expose a; 0 when
\* there is no such group or no role.
ResolvedRank(u, a) ==
    LET ranks == {Rank(agu[<<g, u>>]) : g \in {h \in Groups : <<h, a>> \in agm}}
                 \cup {0}
    IN CHOOSE m \in ranks : \A n \in ranks : n <= m

\* C14: for a user who is not the owner, the permission on an account is the
\* maximum of the user's roles over the groups that expose it (none when
\* there is no such group): the edit check passes iff that maximum is edit
\* or admin, the account is accessible iff it is at least view.
MaximumRoleDecides ==
    \A u \in Users, a \in Accounts :
        AccountOwner(a) # u =>
            /\ ensure_account_edit_access(u, a) = OK <=> ResolvedRank(u, a) >= Rank("edit")
            /\ a \in accessible_accounts(u) <=> ResolvedRank(u, a) >= Rank("view")

\* u2 has written the obligation of a1 with view in g1 and edit in g2, both
\* exposing a1, while u3 could not.
EditsThroughTheHigherRole ==
    /\ resp = OK
    /\ DOMAIN rt = {"r1"}
    /\ agm = Groups \X {"a1"}
    /\ agu[<<"g1", "u2">>] = "view"
    /\ agu[<<"g2", "u2">>] = "edit"
    /\ \A g \in Groups : agu[<<g, "u3">>] \in {"view", NoRole}

\* C15: raising a user's role in a group (view to edit, edit to admin, view
\* to admin) never lowers the user's permission on an account the group
\* exposes: what the user was allowed before is still allowed after.
RaisingRoleKeepsAccess ==
    [][\A g \in Groups, u \in Users :
          (agu[<<g, u>>] # NoRole /\ Rank(agu'[<<g, u>>]) > Rank(agu[<<g, u>>]))
          => \A a \in Accounts :
                <<g, a>> \in agm =>
                   /\ ensure_account_edit_access(u, a) = OK
                        => ensure_account_edit_access(u, a)' = OK
                   /\ a \in accessible_accounts(u) => a \in accessible_accounts(u)'
                   /\ ResolvedRank(u, a)' >= ResolvedRank(u, a)]_vars

\* u2, a viewer of g1 and g2 at the start, has been raised to admin of g1,
\* which exposes a1, and edits a1 through it.
RaisedToAdmin ==
    /\ resp = NO_CONTENT
    /\ <<"g1", "a1">> \in agm
    /\ agu[<<"g1", "u2">>] = "admin"
    /\ agu[<<"g2", "u2">>] = "view"
    /\ ensure_account_edit_access("u2", "a1") = OK

\* u is not the owner of account a and has neither edit nor admin in a group
\* that exposes it.
NoEditAccess(u, a) ==
    /\ a \in Accounts
    /\ AccountOwner(a) # u
    /\ \A g \in Groups : <<g, a>> \in agm => agu[<<g, u>>] \notin {"edit", "admin"}

\* C16: create, update, skip and delete of an obligation by a user who is not
\* the owner of the account and holds neither edit nor admin in a group that
\* exposes it (also after a committed demotion to view) fail with Forbidden
\* and leave the obligations and the transactions unchanged.
WritesNeedEdit ==
    [][/\ \A u \in Users, a \in Accounts, d \in Intervals, t \in Times :
             (NoEditAccess(u, a)
              /\ create_recurring_transaction("p1", u, a, d, t, None))
             => resp' = FORBIDDEN /\ rt' = rt /\ txns' = txns
       /\ \A u \in Users, r \in DOMAIN rt :
             (/\ NoEditAccess(u, rt[r].account_id)
              /\ \/ \E pl \in MovePayloads :
                       update_recurring_transaction("p1", u, r, pl)
                 \/ skip_recurring_transaction("p1", u, r)
                 \/ delete_recurring_transaction("p1", u, r))
             => resp' = FORBIDDEN /\ rt' = rt /\ txns' = txns]_vars

\* u2, an editor at the start, is a viewer now, and the last request, on the
\* obligation of a1 that u1 and u3 may edit, was refused and left it there.
RefusedAfterDemotion ==
    /\ resp = FORBIDDEN
    /\ DOMAIN rt = {"r1"}
    /\ rt["r1"].account_id = "a1"
    /\ agu[<<"g1", "u2">>] = "view"
    /\ agu[<<"g1", "u3">>] = "edit"

\* C17: add-or-update member, change role and remove member by a user who is
\* not an admin of the group answer Forbidden when the group exists and
\* NotFound when it does not, start no write and leave the member rows as
\* they are; owning an exposed account or holding view or edit is not enough.
NonAdminRejected ==
    [][\A p \in Reqs, u \in Users, g \in Groups :
          (/\ agu[<<g, u>>] # "admin"
           /\ \/ \E t \in Users \cup {NoUser}, r \in RoleInputs :
                    CguStart(p, u, g, t, r)
              \/ \E t \in Users, r \in RoleInputs : UguStart(p, u, g, t, r)
              \/ \E t \in Users : DguStart(p, u, g, t))
          => /\ resp' = IF groups[g] = NoUser THEN GROUP_NOT_FOUND ELSE FORBIDDEN
             /\ agu' = agu
             /\ req' = req]_vars

\* A request on g1 was refused while the owner of its account a1 is a viewer
\* and u3 an editor, with the rows as they were.
RefusedOwnerAndEditor ==
    /\ resp = FORBIDDEN
    /\ AccountOwner("a1") = "u1" /\ <<"g1", "a1">> \in agm
    /\ agu[<<"g1", "u1">>] = "view"
    /\ agu[<<"g1", "u2">>] = "admin"
    /\ agu[<<"g1", "u3">>] = "edit"
    /\ \A p \in Reqs : req[p] = Idle

\* C18: the role of add-or-update member and change role is trimmed and
\* lower-cased; a string that is then not view, edit or admin is answered
\* with "Invalid role" and writes nothing, and every stored role is exactly
\* one of view, edit, admin.
RoleValidated ==
    [][/\ \A k \in Groups \X Users : agu'[k] \in Roles \cup {NoRole}
       /\ \A p \in Reqs, u \in Users, g \in Groups, r \in RoleInputs :
             (/\ agu[<<g, u>>] = "admin"
              /\ TrimLower(r) \notin Roles
              /\ \/ \E t \in Users \cup {NoUser} : CguStart(p, u, g, t, r)
                 \/ \E t \in Users : UguStart(p, u, g, t, r))
             => resp' = INVALID_ROLE /\ agu' = agu /\ req' = req
       /\ \A p \in Reqs :
             (CguUpsert(p) \/ UguUpdate(p))
             => \A k \in Groups \X Users :
                   agu'[k] # agu[k] => agu'[k] = req[p].role]_vars

\* u3 became admin, which only the input " Admin" yields, and the last
\* request was answered with "Invalid role".
StoredNormalizedAndRefused ==
    /\ resp = INVALID_ROLE
    /\ agu[<<"g1", "u3">>] = "admin"
    /\ "admin" \notin RoleInputs

\* The stored rows and the requests in progress.
Store == <<groups, names, agu, agm, rt, txns, req>>

\* C19: a check on an account or group whose row does not exist fails with
\* NotFound, a check on an existing account or group for which the caller's
\* role is below the threshold fails with Forbidden, and neither changes the
\* stored rows.
FailureKinds ==
    [][/\ \A u \in Users, a \in Accounts \cup {NoAccount} :
             (/\ a \notin Accounts \/ NoEditAccess(u, a)
              /\ create_recurring_transaction("p1", u, a, 1, 0, None))
             => /\ resp' = IF a \notin Accounts THEN ACCOUNT_NOT_FOUND ELSE FORBIDDEN
                /\ Store' = Store
       /\ \A u \in Users, r \in DOMAIN rt :
             (/\ NoEditAccess(u, rt[r].account_id)
              /\ \/ \E pl \in MovePayloads :
                       update_recurring_transaction("p1", u, r, pl)
                 \/ skip_recurring_transaction("p1", u, r)
                 \/ delete_recurring_transaction("p1", u, r))
             => resp' = FORBIDDEN /\ Store' = Store
       /\ \A u \in Users, g \in Groups :
             (/\ groups[g] = NoUser \/ Rank(agu[<<g, u>>]) < Rank("admin")
              /\ \/ \E t \in Users \cup {NoUser}, r \in RoleInputs :
                       CguStart("p1", u, g, t, r)
                 \/ \E t \in Users, r \in RoleInputs : UguStart("p1", u, g, t, r)
                 \/ \E t \in Users : DguStart("p1", u, g, t))
             => /\ resp' = IF groups[g] = NoUser THEN GROUP_NOT_FOUND ELSE FORBIDDEN
                /\ Store' = Store]_vars

\* The creation of an obligation on an account that has no row was answered
\* with "Account not found" after the roles in g1 had changed, and no
\* obligation is stored.
MissingAccountReported ==
    /\ resp = ACCOUNT_NOT_FOUND
    /\ NoAccount \notin Accounts
    /\ DOMAIN rt = {}
    /\ agu[<<"g1", "u3">>] = "edit"

\* u has no access to account a: u does not own it and is a member of no
\* group that exposes it.
NoAccess(u, a) == a \in Accounts /\ a \notin accessible_accounts(u)

\* C20: a caller with no access gets the same answer, NotFound, whether the
\* account, obligation or group of the request does not exist or exists out of
\* the caller's reach.
NoAccessLooksAbsent ==
    [][/\ \A u \in Users, a \in Accounts \cup {NoAccount} :
             (/\ a \notin Accounts \/ NoAccess(u, a)
              /\ create_recurring_transaction("p1", u, a, 1, 0, None))
             => resp' = ACCOUNT_NOT_FOUND
       /\ \A u \in Users, r \in RIds :
             (/\ r \in DOMAIN rt => NoAccess(u, rt[r].account_id)
              /\ \/ skip_recurring_transaction("p1", u, r)
                 \/ delete_recurring_transaction("p1", u, r))
             => resp' = RECURRING_NOT_FOUND
       /\ \A u \in Users, g \in Groups :
             (/\ agu[<<g, u>>] = NoRole
              /\ \/ \E t \in Users \cup {NoUser}, r \in RoleInputs :
                       CguStart("p1", u, g, t, r)
                 \/ \E t \in Users, r \in RoleInputs : UguStart("p1", u, g, t, r)
                 \/ \E t \in Users : DguStart("p1", u, g, t))
             => resp' = GROUP_NOT_FOUND]_vars

\* C21: every stored obligation has interval_days >= 1: a create or an update
\* with interval_days < 1 is refused and stores nothing.
IntervalAtLeastOne == \A r \in DOMAIN rt : rt[r].interval_days >= 1

\* C22: create_account_group is all-or-nothing, also when the request fails or
\* is cancelled between its steps: a group row exists only together with the
\* row that makes its creator an admin and with the requested memberships
\* (here all the accounts of the creator).
CreateGroupAllOrNothing ==
    \A g \in Groups :
        groups[g] # NoUser
        => /\ agu[<<g, groups[g]>>] = "admin"
           /\ \A a \in OwnAccounts(groups[g]) : <<g, a>> \in agm

\* C23: a tick never waits for a row locked by another claimer: it passes
\* over the rows the other holds, fires every due row that is not locked, and
\* ends while the other still holds its locks.
TickNeverWaits ==
    /\ [][/\ \A r \in RIds :
              (TickLock("w1", r) /\ r \in tick["w2"].held)
              => /\ tick'["w1"].seen = tick["w1"].seen \cup {r}
                 /\ tick'["w1"].held = tick["w1"].held
          /\ Commits("w1")
              => /\ tick["w1"].held =
                       {r \in DOMAIN rt : Due(rt[r], tick["w1"].at)} \ tick["w2"].held
                 /\ \A r \in tick["w1"].held :
                       /\ rt'[r].next_occurs_at =
                             rt[r].next_occurs_at + rt[r].interval_days
                       /\ \A t \in {rt[r].next_occurs_at} :
                             FiredAt(r, t)' = FiredAt(r, t) + 1
                 /\ tick'["w2"] = tick["w2"]]_vars
    /\ (tick["w1"].pc = "scan") ~> (tick["w1"].pc = "idle")

\* w1 has fired r2 and ended while w2 still holds r1, which was due for w1 as
\* well and has not been fired.
EndedBesideHeldRow ==
    /\ tick["w1"].pc = "idle" /\ tick["w1"].last = "committed"
    /\ tick["w2"].pc = "scan" /\ tick["w2"].held = {"r1"}
    /\ rt["r1"].next_occurs_at <= tick["w1"].at
    /\ Fired("r1") = 0
    /\ Fired("r2") = 1

\* The statement of w ends with an error.
Fails(w) ==
    tick[w].pc = "scan" /\ tick'[w].pc # "scan" /\ tick'[w].last = "failed"

PassedInstants(r) ==
    {rt[r].next_occurs_at - j * rt[r].interval_days : j \in 1..advances[r]}

\* No obligation is due any more.
CaughtUp == \A r \in DOMAIN rt : rt[r].next_occurs_at > now

\* C25: with no user edits a backlog is cleared by finitely many successful
\* ticks: every tick brings each obligation it fires closer to now, and once
\* next_occurs_at > now for every obligation, exactly one transaction has been
\* emitted for each missed instant.
BacklogIsCleared ==
    /\ [][Commits("w1") =>
             \A r \in tick["w1"].held :
                 rt'[r].next_occurs_at > rt[r].next_occurs_at]_vars
    /\ [](CaughtUp =>
             \A r \in DOMAIN rt :
                 /\ Fired(r) = advances[r]
                 /\ Cardinality(PassedInstants(r)) = advances[r]
                 /\ \A t \in PassedInstants(r) : FiredAt(r, t) = 1)

\* C26: the scheduler fires only enabled obligations: no step inserts a
\* transaction for, or advances next_occurs_at of, an obligation whose
\* is_enabled is false, also when it is due.
DisabledIsNotFired ==
    [][\A r \in DOMAIN rt :
          ~rt[r].is_enabled
          => /\ rt'[r].next_occurs_at = rt[r].next_occurs_at
             /\ Fired(r)' = Fired(r)]_vars

\* The number of copies of transaction e in the ledger b.
Copies(b, e) == IF e \in DOMAIN b THEN b[e] ELSE 0

Skipped == IF resp = OK THEN 1 ELSE 0

\* C28: a skip and a firing that run concurrently on the obligation r1
\* (next_occurs_at = t, interval d) lose no update: in every interleaving
\* next_occurs_at is t plus d times the number of the two operations that
\* have succeeded, and at most one transaction dated t is inserted.
SkipAndFiringBothCount ==
    \A t \in Times, d \in Intervals :
        (rt["r1"].next_occurs_at = t /\ rt["r1"].interval_days = d)
        => [](/\ rt["r1"].next_occurs_at = t + d * (Skipped + advances["r1"])
              /\ Fired("r1") = advances["r1"]
              /\ advances["r1"] <= 1
              /\ FiredAt("r1", t) <= 1)

\* The tick has fired the daily obligation r1 for instant 0 and the skip has
\* succeeded: next_occurs_at is 0 + 2 * 1.
SkippedAndFired ==
    /\ resp = OK
    /\ tick["w1"].last = "committed"
    /\ rt["r1"].interval_days = 1
    /\ rt["r1"].next_occurs_at = 2
    /\ FiredAt("r1", 0) = 1

\* u owns account a or has edit or admin in a group that exposes it.
EditAccess(u, a) ==
    /\ a \in Accounts
    /\ \/ AccountOwner(a) = u
       \/ \E g \in Groups : <<g, a>> \in agm /\ agu[<<g, u>>] \in {"edit", "admin"}

\* C29: update_recurring_transaction moves an obligation to another account
\* only for a user with edit-or-better access to both the current and the new
\* account; if either check fails the obligation is unchanged.
MoveNeedsBothAccounts ==
    [][\A u \in Users, r \in DOMAIN rt, a \in Accounts \cup {NoAccount} :
          update_recurring_transaction("p1", u, r, MoveTo(a))
          => IF EditAccess(u, rt[r].account_id) /\ EditAccess(u, a)
             THEN resp' = OK /\ rt'[r].account_id = a
             ELSE resp' # OK /\ rt' = rt]_vars

\* r1, created on a1, is on a2, where only u2 could move it, and a later
\* request to move it was refused.
MovedThenRefused ==
    /\ DOMAIN rt = {"r1"}
    /\ rt["r1"].account_id = "a2"
    /\ resp = FORBIDDEN

\* C30: a group exposes only accounts of the user who set its membership:
\* create_account_group and update_account_group with an account id that the
\* caller does not own fail with Forbidden, and the failed update leaves the
\* name and the memberships of the group as they were.
ForeignAccountsForbidden ==
    /\ [](\A m \in agm : AccountOwner(m[2]) = groups[m[1]])
    /\ [][/\ \A u \in Users, ids \in SUBSET Accounts :
                (ids # OwnAccounts(u) \cap ids /\ CgStart("p1", u, ids))
                => /\ resp' = FORBIDDEN
                   /\ UNCHANGED <<groups, names, agu, agm>>
          /\ \A u \in Users, g \in Groups, nm \in {None, Some(OtherName)},
                ids \in SUBSET Accounts :
                (/\ groups[g] # NoUser
                 /\ ids # OwnAccounts(u) \cap ids
                 /\ update_account_group("p1", u, g, nm, Some(ids)))
                => /\ resp' = FORBIDDEN
                   /\ UNCHANGED <<groups, names, agu, agm>>]_vars

====
